---- MODULE Spec2Model ----
(***************************************************************************)
(* Model of the two Waybar configuration patchers of wizado-omarchy:       *)
(*   src/debug_waybar_patch.py and src/fix_waybar.py.                      *)
(*                                                                         *)
(* Each script is one linear run: read config.jsonc, strip // comments,    *)
(* json.loads, mutate the parsed dict in memory, json.dumps, write_text.   *)
(* Everything sits in one try/except Exception whose handler only prints.  *)
(*                                                                         *)
(* JSON values are tagged records:                                         *)
(*   [t |-> "dict", kv |-> <<[k |-> key, v |-> value], ...>>]              *)
(*        (a Python dict: keys in insertion order)                         *)
(*   [t |-> "list", items |-> <<"tray", ...>>]   (a list of module ids)    *)
(*   [t |-> "str", s |-> "..."], [t |-> "num", n |-> 2],                   *)
(*   [t |-> "bool", b |-> TRUE], [t |-> "null"]                            *)
(***************************************************************************)
EXTENDS Integers, Sequences, FiniteSets, TLC

VARIABLES
    file,       \* ~/.config/waybar/config.jsonc on disk
    installed,  \* the terminal emulators shutil.which finds
    pc,         \* position of the running script ("idle" between runs)
    script,     \* which script is running / ran last
    cfg,        \* the script's in-memory document (cfg)
    group_key,  \* what find_drawer_group_key(cfg) returned in this run
    last,       \* the last finished run: its script and how it ended
    runs        \* number of runs started

vars == <<file, installed, pc, script, cfg, group_key, last, runs>>

-----------------------------------------------------------------------------
(* Bounds of the model *)

MaxRuns  == 2   \* runs of a script per behaviour
MaxItems == 2   \* most module ids in the lists of the initial document, all in all

-----------------------------------------------------------------------------
(* JSON values and Python dict operations *)

None == [t |-> "null"]
Str(s) == [t |-> "str", s |-> s]
Num(n) == [t |-> "num", n |-> n]
Bool(b) == [t |-> "bool", b |-> b]
List(items) == [t |-> "list", items |-> items]
Dict(kv) == [t |-> "dict", kv |-> kv]

isdict(v) == v.t = "dict"
islist(v) == v.t = "list"

\* k in d
Has(d, k) == \E i \in 1..Len(d.kv) : d.kv[i].k = k

\* d.get(k, default)
Get(d, k, default) ==
    IF Has(d, k)
    THEN d.kv[CHOOSE i \in 1..Len(d.kv) : d.kv[i].k = k].v
    ELSE default

\* d[k] = v : an existing key keeps its position, a new key goes last
Put(d, k, v) ==
    IF Has(d, k)
    THEN Dict([i \in 1..Len(d.kv) |->
                 IF d.kv[i].k = k THEN [k |-> k, v |-> v] ELSE d.kv[i]])
    ELSE Dict(Append(d.kv, [k |-> k, v |-> v]))

\* x in arr, arr.index(x)
In(x, arr) == \E i \in 1..Len(arr) : arr[i] = x
Index(arr, x) == CHOOSE i \in 1..Len(arr) :
                    arr[i] = x /\ \A j \in 1..(i - 1) : arr[j] # x

\* k.startswith("group/"): the keys of the model that do
GroupKeys == {"group/tray-expander", "group/a", "group/b"}
startswith_group(k) == k \in GroupKeys

-----------------------------------------------------------------------------
(* The file's text, comment stripping, parsing and serialisation *)

\* The string values of the model that contain "//"
DoubleSlashStrings == {"xdg-open https://omarchy.org"}

RECURSIVE HasDoubleSlash(_)
HasDoubleSlash(v) ==
    CASE v.t = "str"  -> v.s \in DoubleSlashStrings
      [] v.t = "list" -> \E i \in 1..Len(v.items) : v.items[i] \in DoubleSlashStrings
      [] v.t = "dict" -> \E i \in 1..Len(v.kv) :
                            \/ v.kv[i].k \in DoubleSlashStrings
                            \/ HasDoubleSlash(v.kv[i].v)
      [] OTHER -> FALSE

(* A text is                                                               *)
(*   wellFormed : apart from // comments it is one JSON value              *)
(*   comments   : it has // line comments between the JSON tokens          *)
(*   escSolidus : "/" inside string literals is written "\/"               *)
(*   value      : the JSON value it denotes                                *)

\* re.sub(r"//.*?$", "", raw, flags=re.M): cuts every line at its first "//",
\* a "//" inside a string literal included (the literal loses its closing quote)
Strip(raw) ==
    [raw EXCEPT !.comments = FALSE,
                !.wellFormed = raw.wellFormed
                               /\ (HasDoubleSlash(raw.value) => raw.escSolidus)]

\* json.loads(raw2) raises on anything that is not one JSON value
Parses(raw2) == raw2.wellFormed /\ ~raw2.comments
json_loads(raw2) == raw2.value

\* json.dumps(cfg, indent=2) + "\n"
json_dumps(v) ==
    [wellFormed |-> TRUE, comments |-> FALSE, escSolidus |-> FALSE, value |-> v]

-----------------------------------------------------------------------------
(* Constants of the scripts *)

WIZADO == "custom/wizado"
TRAY == "tray"
EXPAND_ICON == "custom/expand-icon"
TRAY_EXPANDER == "group/tray-expander"
FLAT_KEYS == <<"modules-right", "modules-left", "modules-center">>
TARGETS == <<"bluetooth", "network", "pulseaudio", "cpu", "battery">>
TERMS == <<"ghostty", "alacritty", "kitty", "foot", "gnome-terminal", "konsole">>

\* str(pathlib.Path.home() / ...), with the home directory written "~"
WIZADO_MENU == "~/.local/share/steam-launcher/wizado-menu"
WIZADO_STATUS == "~/.config/waybar/scripts/wizado-status.sh"
ENTER_GAMESMODE == "~/.local/share/steam-launcher/enter-gamesmode"
LEAVE_GAMESMODE == "~/.local/share/steam-launcher/leave-gamesmode"

\* find_drawer_group_key returns None
NoKey == ""

-----------------------------------------------------------------------------
(* The functions of the scripts *)

\* get_terminal_cmd(): the first of TERMS that shutil.which finds
get_terminal_cmd(which) ==
    IF \E i \in 1..Len(TERMS) : TERMS[i] \in which
    THEN LET i == CHOOSE i \in 1..Len(TERMS) :
                     TERMS[i] \in which /\ \A j \in 1..(i - 1) : TERMS[j] \notin which
             t == TERMS[i]
         IN  IF t = "gnome-terminal" THEN t \o " --"
             ELSE IF t = "konsole" THEN t \o " -e"
             ELSE t \o " -e"
    ELSE "alacritty -e"

\* remove_module(arr, mod)
remove_module(arr, mod) ==
    IF ~islist(arr) THEN arr
    ELSE List(SelectSeq(arr.items, LAMBDA x : x # mod))

\* arr[:i] + ["custom/wizado"] + arr[i:], i counted as Python does (from 0)
InsertAt(arr, i, x) ==
    SubSeq(arr, 1, i) \o <<x>> \o SubSeq(arr, i + 1, Len(arr))

\* inject_right without its "already there" test
inject_right_unchecked(arr) ==
    IF ~islist(arr) THEN List(<<WIZADO>>)
    ELSE IF \E t \in 1..Len(TARGETS) : In(TARGETS[t], arr.items)
    THEN LET t == CHOOSE t \in 1..Len(TARGETS) :
                     /\ In(TARGETS[t], arr.items)
                     /\ \A u \in 1..(t - 1) : ~In(TARGETS[u], arr.items)
             i == Index(arr.items, TARGETS[t]) - 1
         IN  List(InsertAt(arr.items, i, WIZADO))
    ELSE List(Append(arr.items, WIZADO))

\* inject_right looking for the leftmost target of the list, not for the
\* targets in their order of preference
inject_right_by_position(arr) ==
    IF ~islist(arr) THEN List(<<WIZADO>>)
    ELSE IF In(WIZADO, arr.items) THEN arr
    ELSE IF \E i \in 1..Len(arr.items) : \E t \in 1..Len(TARGETS) : arr.items[i] = TARGETS[t]
    THEN LET i == CHOOSE i \in 1..Len(arr.items) :
                     /\ \E t \in 1..Len(TARGETS) : arr.items[i] = TARGETS[t]
                     /\ \A j \in 1..(i - 1) : \A t \in 1..Len(TARGETS) : arr.items[j] # TARGETS[t]
         IN  List(InsertAt(arr.items, i - 1, WIZADO))
    ELSE List(Append(arr.items, WIZADO))

\* inject_right(arr) of debug_waybar_patch.py
inject_right(arr) ==
    IF ~islist(arr) THEN List(<<WIZADO>>)
    ELSE IF In(WIZADO, arr.items) THEN arr
    ELSE IF \E t \in 1..Len(TARGETS) : In(TARGETS[t], arr.items)
    THEN LET t == CHOOSE t \in 1..Len(TARGETS) :
                     /\ In(TARGETS[t], arr.items)
                     /\ \A u \in 1..(t - 1) : ~In(TARGETS[u], arr.items)
             i == Index(arr.items, TARGETS[t]) - 1
         IN  List(InsertAt(arr.items, i, WIZADO))
    ELSE List(Append(arr.items, WIZADO))

\* the structural check both scans apply to a value
is_drawer(v) == isdict(v) /\ islist(Get(v, "modules", None))

\* find_drawer_group_key without its preference for the tray expander
find_drawer_group_key_scan_only(cfg_obj) ==
    IF \E i \in 1..Len(cfg_obj.kv) :
           startswith_group(cfg_obj.kv[i].k) /\ is_drawer(cfg_obj.kv[i].v)
    THEN LET i == CHOOSE i \in 1..Len(cfg_obj.kv) :
                     /\ startswith_group(cfg_obj.kv[i].k) /\ is_drawer(cfg_obj.kv[i].v)
                     /\ \A j \in 1..(i - 1) :
                            ~(startswith_group(cfg_obj.kv[j].k) /\ is_drawer(cfg_obj.kv[j].v))
         IN  cfg_obj.kv[i].k
    ELSE NoKey

\* find_drawer_group_key(cfg_obj), for a cfg_obj that is a dict
find_drawer_group_key(cfg_obj) ==
    IF is_drawer(Get(cfg_obj, TRAY_EXPANDER, None)) THEN TRAY_EXPANDER
    ELSE IF \E i \in 1..Len(cfg_obj.kv) :
               startswith_group(cfg_obj.kv[i].k) /\ is_drawer(cfg_obj.kv[i].v)
    THEN LET i == CHOOSE i \in 1..Len(cfg_obj.kv) :
                     /\ startswith_group(cfg_obj.kv[i].k) /\ is_drawer(cfg_obj.kv[i].v)
                     /\ \A j \in 1..(i - 1) :
                            ~(startswith_group(cfg_obj.kv[j].k) /\ is_drawer(cfg_obj.kv[j].v))
         IN  cfg_obj.kv[i].k
    ELSE NoKey

\* the update of mods with i = mods.index("tray"), the + 1 forgotten
drawer_mods_before_tray(mods) ==
    IF In(WIZADO, mods) THEN mods
    ELSE IF In(TRAY, mods)
    THEN LET i == Index(mods, TRAY) - 1 IN InsertAt(mods, i, WIZADO)
    ELSE LET appended == mods \o <<WIZADO>>
         IN  IF appended # <<>> /\ appended[1] = WIZADO
             THEN <<EXPAND_ICON>> \o appended
             ELSE appended

\* the update of mods with "if mods:" for the sentinel, mods[0] not looked at
drawer_mods_always_sentinel(mods) ==
    IF In(WIZADO, mods) THEN mods
    ELSE IF In(TRAY, mods)
    THEN LET i == (Index(mods, TRAY) - 1) + 1 IN InsertAt(mods, i, WIZADO)
    ELSE LET appended == mods \o <<WIZADO>>
         IN  IF appended # <<>>
             THEN <<EXPAND_ICON>> \o appended
             ELSE appended

\* the update of mods inside "if isinstance(mods, list)"
drawer_mods(mods) ==
    IF In(WIZADO, mods) THEN mods
    ELSE IF In(TRAY, mods)
    THEN LET i == (Index(mods, TRAY) - 1) + 1 IN InsertAt(mods, i, WIZADO)
    ELSE LET appended == mods \o <<WIZADO>>
         IN  IF appended # <<>> /\ appended[1] = WIZADO
             THEN <<EXPAND_ICON>> \o appended
             ELSE appended

\* for list_key in (...): cfg[list_key] = remove_module(cfg.get(list_key, []), ...)
RECURSIVE remove_from_flat(_, _)
remove_from_flat(c, n) ==
    IF n > Len(FLAT_KEYS) THEN c
    ELSE remove_from_flat(
             Put(c, FLAT_KEYS[n], remove_module(Get(c, FLAT_KEYS[n], List(<<>>)), WIZADO)),
             n + 1)

\* the "if group_key:" branch, the same in both scripts
place_in_drawer(c, gk) ==
    LET group == Get(c, gk, Dict(<<>>))
        mods == Get(group, "modules", List(<<>>))
        c2 == IF islist(mods)
              THEN Put(c, gk, Put(group, "modules", List(drawer_mods(mods.items))))
              ELSE c
    IN  remove_from_flat(c2, 1)

\* the placement block of debug_waybar_patch.py
place_debug(c, gk) ==
    IF gk # NoKey
    THEN place_in_drawer(c, gk)
    ELSE Put(c, "modules-right", inject_right(Get(c, "modules-right", List(<<>>))))

\* the placement block of fix_waybar.py: it has no else branch
place_fix(c, gk) ==
    IF gk # NoKey THEN place_in_drawer(c, gk) ELSE c

\* cfg["custom/wizado"] = {...} of debug_waybar_patch.py
define_debug(c, term_cmd) ==
    Put(c, WIZADO, Dict(<<
        [k |-> "format", v |-> Str("{}")],
        [k |-> "return-type", v |-> Str("json")],
        [k |-> "exec", v |-> Str(WIZADO_STATUS)],
        [k |-> "interval", v |-> Num(2)],
        [k |-> "on-click", v |-> Str(term_cmd \o " " \o WIZADO_MENU)],
        [k |-> "on-click-right", v |-> Str(ENTER_GAMESMODE \o " --mode tty")],
        [k |-> "on-click-middle", v |-> Str(LEAVE_GAMESMODE)],
        [k |-> "tooltip", v |-> Bool(TRUE)]>>))

\* fix_waybar.py raising as well on a modules-left, modules-right or
\* modules-center that is no list
define_fix_raises_strict(c) ==
    \/ ~isdict(c)
    \/ Has(c, WIZADO) /\ ~isdict(Get(c, WIZADO, None))
    \/ \E n \in 1..Len(FLAT_KEYS) :
          Has(c, FLAT_KEYS[n]) /\ ~islist(Get(c, FLAT_KEYS[n], None))

\* fix_waybar.py raises in "Update the module config": cfg is no dict (the
\* membership test, the subscript or the item assignment raises TypeError), or
\* cfg["custom/wizado"] is no dict (the item assignment raises TypeError)
define_fix_raises(c) ==
    \/ ~isdict(c)
    \/ Has(c, WIZADO) /\ ~isdict(Get(c, WIZADO, None))

\* the update-or-create of fix_waybar.py without its else branch
define_fix_update_only(c, term_cmd) ==
    IF Has(c, WIZADO)
    THEN LET d1 == Put(Get(c, WIZADO, None), "format", Str("{}"))
             d2 == Put(d1, "on-click", Str(term_cmd \o " " \o WIZADO_MENU))
         IN  Put(c, WIZADO, d2)
    ELSE c

\* the update-or-create of fix_waybar.py
define_fix(c, term_cmd) ==
    IF Has(c, WIZADO)
    THEN LET d1 == Put(Get(c, WIZADO, None), "format", Str("{}"))
             d2 == Put(d1, "on-click", Str(term_cmd \o " " \o WIZADO_MENU))
         IN  Put(c, WIZADO, d2)
    ELSE Put(c, WIZADO, Dict(<<
        [k |-> "format", v |-> Str("{}")],
        [k |-> "return-type", v |-> Str("json")],
        [k |-> "exec", v |-> Str(WIZADO_STATUS)],
        [k |-> "interval", v |-> Num(2)],
        [k |-> "on-click", v |-> Str(term_cmd \o " " \o WIZADO_MENU)],
        [k |-> "tooltip", v |-> Bool(TRUE)]>>))

-----------------------------------------------------------------------------
(* The initial file *)

\* module ids of the initial lists: the module itself, the tray sentinel and
\* two of TARGETS (the second before the first); TRAY is no target
FlatIds == {WIZADO, TRAY, "network", "bluetooth"}
DrawerIds == {WIZADO, TRAY, "network"}

\* the top-level keys of the initial document, in the order it lists them
KeyOrder == <<"modules-left", "group/b", "modules-right", "group/a", "custom/web",
              TRAY_EXPANDER, WIZADO, "modules-center">>

\* the values a key may hold whose lists have n module ids all in all
ValuesOf(key, n) ==
    IF key \in {"modules-left", "modules-right", "modules-center"}
    THEN {List(items) : items \in [1..n -> FlatIds]}
         \cup (IF n = 0 THEN {Str("hidden")} ELSE {})
    ELSE IF key \in GroupKeys
    THEN {Dict(<<[k |-> "orientation", v |-> Str("inherit")],
                 [k |-> "modules", v |-> List(items)]>>) : items \in [1..n -> DrawerIds]}
         \cup (IF n = 0
               THEN {Str("off"),
                     Dict(<<[k |-> "orientation", v |-> Str("inherit")]>>),
                     Dict(<<[k |-> "modules", v |-> Str("tray")]>>)}
               ELSE {})
    ELSE IF n # 0 THEN {}
    ELSE IF key = WIZADO
    THEN {Str("off"),
          Dict(<<[k |-> "signal", v |-> Num(8)],
                 [k |-> "format", v |-> Str("{icon}")]>>),
          Dict(<<[k |-> "on-click", v |-> Str("steam")],
                 [k |-> "on-click-right", v |-> Str("steam -bigpicture")]>>)}
    ELSE \* "custom/web"
         {Dict(<<[k |-> "modules", v |-> List(<<TRAY>>)]>>),
          Dict(<<[k |-> "on-click", v |-> Str("xdg-open https://omarchy.org")]>>)}

\* the key-value sequences over one key of ks, or over two, with ni module
\* ids all in all
Entries1(ks, ni) ==
    UNION {{<<[k |-> ks[i], v |-> v]>> : v \in ValuesOf(ks[i], ni)} : i \in 1..Len(ks)}
Entries2(ks, ni) ==
    UNION {{<<[k |-> ks[p[1]], v |-> v], [k |-> ks[p[2]], v |-> w]>> :
                v \in ValuesOf(ks[p[1]], p[3]), w \in ValuesOf(ks[p[2]], ni - p[3])} :
           p \in {q \in (1..Len(ks)) \X (1..Len(ks)) \X (0..ni) : q[1] < q[2]}}

\* the initial documents: none, one or two of the keys, at most MaxItems
\* module ids
InitDocs ==
    {Dict(<<>>)}
    \cup UNION {{Dict(kv) : kv \in Entries1(KeyOrder, ni) \cup Entries2(KeyOrder, ni)} :
                    ni \in 0..MaxItems}

NonDictTops == {List(<<>>), List(<<WIZADO>>), Str("custom/wizado"), Num(1)}

InitTexts ==
    {[wellFormed |-> TRUE, comments |-> c, escSolidus |-> e, value |-> d] :
        c \in BOOLEAN, e \in BOOLEAN, d \in InitDocs \cup NonDictTops}
    \cup {[wellFormed |-> FALSE, comments |-> FALSE, escSolidus |-> FALSE,
           value |-> None]}

NoText == [wellFormed |-> FALSE, comments |-> FALSE, escSolidus |-> FALSE, value |-> None]

InstalledSets == {{}, {"gnome-terminal", "konsole"}}

Scripts == {"debug_waybar_patch", "fix_waybar"}

NoRun == [script |-> "none", outcome |-> "none"]

Init ==
    /\ file \in {[exists |-> TRUE, text |-> t] : t \in InitTexts}
                \cup {[exists |-> FALSE, text |-> NoText]}
    /\ (file.exists /\ file.text.escSolidus) => HasDoubleSlash(file.text.value)
    /\ installed \in InstalledSets
    /\ pc = "idle"
    /\ script = "none"
    /\ cfg = None
    /\ group_key = NoKey
    /\ last = NoRun
    /\ runs = 0

-----------------------------------------------------------------------------
(* The steps of a run *)

\* a handler that saves what the run has got so far
except_handler_saving ==
    /\ pc' = "idle"
    /\ cfg' = None
    /\ group_key' = NoKey
    /\ last' = [script |-> script', outcome |-> "aborted"]
    /\ file' = IF cfg # None THEN [exists |-> TRUE, text |-> json_dumps(cfg)] ELSE file

\* except Exception as e: print(...): the run ends, nothing else happens
except_handler ==
    /\ pc' = "idle"
    /\ cfg' = None
    /\ group_key' = NoKey
    /\ last' = [script |-> script', outcome |-> "aborted"]
    /\ UNCHANGED file

\* path.read_text, re.sub, json.loads
Load(s) ==
    /\ pc = "idle"
    /\ runs < MaxRuns
    /\ runs' = runs + 1
    /\ script' = s
    /\ UNCHANGED installed
    /\ IF file.exists /\ Parses(Strip(file.text))
       THEN /\ cfg' = json_loads(Strip(file.text))
            /\ pc' = "loaded"
            /\ UNCHANGED <<file, group_key, last>>
       ELSE except_handler

\* debug_waybar_patch.py: find_drawer_group_key(cfg) and the placement block;
\* cfg_obj.get raises AttributeError when cfg is no dict
PlaceDebug ==
    /\ script = "debug_waybar_patch"
    /\ pc = "loaded"
    /\ UNCHANGED <<installed, script, runs>>
    /\ IF isdict(cfg)
       THEN /\ group_key' = find_drawer_group_key(cfg)
            /\ cfg' = place_debug(cfg, group_key')
            /\ pc' = "placed"
            /\ UNCHANGED <<file, last>>
       ELSE except_handler

\* debug_waybar_patch.py: get_terminal_cmd() and cfg["custom/wizado"] = {...}
DefineDebug ==
    /\ script = "debug_waybar_patch"
    /\ pc = "placed"
    /\ cfg' = define_debug(cfg, get_terminal_cmd(installed))
    /\ pc' = "ready"
    /\ UNCHANGED <<file, installed, script, group_key, last, runs>>

\* fix_waybar.py: get_terminal_cmd() and "Update the module config"
DefineFix ==
    /\ script = "fix_waybar"
    /\ pc = "loaded"
    /\ UNCHANGED <<installed, script, runs>>
    /\ IF define_fix_raises(cfg)
       THEN except_handler
       ELSE /\ cfg' = define_fix(cfg, get_terminal_cmd(installed))
            /\ pc' = "defined"
            /\ UNCHANGED <<file, group_key, last>>

\* fix_waybar.py: find_drawer_group_key(cfg) and the placement block
PlaceFix ==
    /\ script = "fix_waybar"
    /\ pc = "defined"
    /\ group_key' = find_drawer_group_key(cfg)
    /\ cfg' = place_fix(cfg, group_key')
    /\ pc' = "ready"
    /\ UNCHANGED <<file, installed, script, last, runs>>

\* out = json.dumps(cfg, indent=2); path.write_text(out + "\n")
Write ==
    /\ pc = "ready"
    /\ file' = [exists |-> TRUE, text |-> json_dumps(cfg)]
    /\ pc' = "idle"
    /\ cfg' = None
    /\ group_key' = NoKey
    /\ last' = [script |-> script, outcome |-> "success"]
    /\ UNCHANGED <<installed, script, runs>>

Next ==
    \/ \E s \in Scripts : Load(s)
    \/ PlaceDebug
    \/ DefineDebug
    \/ DefineFix
    \/ PlaceFix
    \/ Write

Spec == Init /\ [][Next]_vars

-----------------------------------------------------------------------------
(* Vocabulary of the properties *)

\* the document the running script loaded: the file is not rewritten before Write
Orig == json_loads(Strip(file.text))

\* the document on disk
OnDisk == file.text.value

\* the run has carried out its placement block
AfterPlacement == pc \in {"placed", "ready"}

Count(items, x) == Cardinality({i \in 1..Len(items) : items[i] = x})
Contains(v, x) == v.t = "list" /\ Count(v.items, x) > 0
ModulesOf(doc, key) ==
    LET g == Get(doc, key, None)
    IN  IF g.t = "dict" THEN Get(g, "modules", None) ELSE None
ItemsOf(v) == IF v.t = "list" THEN v.items ELSE <<>>

\* the module lists reachable from doc: the flat lists, then every group's
ModuleLists(doc) ==
    [n \in 1..Len(FLAT_KEYS) |-> ItemsOf(Get(doc, FLAT_KEYS[n], None))]
    \o [i \in 1..Len(doc.kv) |->
          IF doc.kv[i].k \in GroupKeys THEN ItemsOf(ModulesOf(doc, doc.kv[i].k)) ELSE <<>>]

RECURSIVE Total(_, _)
Total(lists, x) ==
    IF lists = <<>> THEN 0 ELSE Count(Head(lists), x) + Total(Tail(lists), x)

Occurrences(doc) == Total(ModuleLists(doc), WIZADO)

\* new is old with x put in at position p, everything else in its order
InsertedAt(old, new, p, x) ==
    /\ Len(new) = Len(old) + 1
    /\ new[p] = x
    /\ \A j \in 1..Len(old) : new[IF j < p THEN j ELSE j + 1] = old[j]

-----------------------------------------------------------------------------
(* C1: after the placement step of a successful run "custom/wizado" appears *)
(* in exactly one place among modules-left, modules-right, modules-center   *)
(* and the modules lists of the groups.                                     *)
C1_ExactlyOnePlace ==
    AfterPlacement => Occurrences(cfg) = 1

-----------------------------------------------------------------------------
(* C2: a second run of the same script on the document the first run wrote  *)
(* leaves the file as the first run wrote it.                               *)
C2_Idempotent ==
    [][(/\ last.outcome = "success"
        /\ last.script = script
        /\ pc # "idle"
        /\ pc' = "idle") => file' = file]_vars

\* a second run of a script has reached its write after the first wrote a
\* document that had to be patched
C2_Witness ==
    /\ pc = "ready"
    /\ last.outcome = "success"
    /\ last.script = script
    /\ Occurrences(cfg) = 1
    /\ runs = 2

-----------------------------------------------------------------------------
(* C3: the file is written only once reading, comment stripping, parsing    *)
(* and every in-memory mutation have succeeded, and then with the           *)
(* serialised document; a run that fails leaves the file as it was.         *)
C3_NoPartialPersistence ==
    [][file' # file => /\ pc = "ready"
                       /\ last'.outcome = "success"
                       /\ file'.text = json_dumps(cfg)]_vars

\* a run has failed during the traversal of a document that parsed
C3_Witness ==
    /\ pc = "idle"
    /\ last.outcome = "aborted"
    /\ file.exists
    /\ Parses(Strip(file.text))

-----------------------------------------------------------------------------
(* C4: a run merges into an existing "custom/wizado" definition: the fields *)
(* of the old definition that the run does not supply keep their values,    *)
(* the supplied fields have the supplied values; without an old definition  *)
(* the new one holds exactly the supplied fields.                           *)
SuppliedFields(scr, exists) ==
    IF scr = "debug_waybar_patch"
    THEN {"format", "return-type", "exec", "interval", "on-click",
          "on-click-right", "on-click-middle", "tooltip"}
    ELSE IF exists THEN {"format", "on-click"}
    ELSE {"format", "return-type", "exec", "interval", "on-click", "tooltip"}

Keys(d) == {d.kv[i].k : i \in 1..Len(d.kv)}

C4_Merges ==
    pc = "ready" =>
        LET old == Get(Orig, WIZADO, None)
            new == Get(cfg, WIZADO, None)
        IN  /\ new.t = "dict"
            /\ Get(new, "format", None) = Str("{}")
            /\ IF old.t = "dict"
               THEN \A f \in Keys(old) \ SuppliedFields(script, TRUE) :
                        Get(new, f, None) = Get(old, f, None)
               ELSE Has(Orig, WIZADO) \/ Keys(new) = SuppliedFields(script, FALSE)

-----------------------------------------------------------------------------
(* C5: in the document a successful run writes, "custom/wizado" has a       *)
(* definition (a mapping under the top-level key) whenever it appears in a  *)
(* module list; this holds after every run of either script.                *)
C5_DefinitionExists ==
    (pc = "idle" /\ last.outcome = "success" /\ Occurrences(OnDisk) > 0)
        => Get(OnDisk, WIZADO, None).t = "dict"

\* a successful run has written a document that lists the module
C5_Witness ==
    /\ pc = "idle"
    /\ last.outcome = "success"
    /\ Occurrences(OnDisk) > 0
    /\ Get(OnDisk, WIZADO, None).t = "dict"

-----------------------------------------------------------------------------
(* C6: when the located drawer's modules hold "tray" and not                *)
(* "custom/wizado", placement puts "custom/wizado" right after the first    *)
(* "tray", keeps the other elements in order, and leaves "custom/wizado" in *)
(* none of modules-left, modules-right, modules-center.                     *)
FirstIndex(items, x) ==
    CHOOSE i \in 1..Len(items) : items[i] = x /\ \A j \in 1..(i - 1) : items[j] # x

TrayDrawerCase ==
    /\ AfterPlacement
    /\ group_key # NoKey
    /\ Count(ItemsOf(ModulesOf(Orig, group_key)), TRAY) > 0
    /\ Count(ItemsOf(ModulesOf(Orig, group_key)), WIZADO) = 0

C6_AfterTray ==
    TrayDrawerCase =>
        LET old == ItemsOf(ModulesOf(Orig, group_key))
            new == ItemsOf(ModulesOf(cfg, group_key))
        IN  /\ InsertedAt(old, new, FirstIndex(old, TRAY) + 1, WIZADO)
            /\ \A n \in 1..Len(FLAT_KEYS) : ~Contains(Get(cfg, FLAT_KEYS[n], None), WIZADO)

\* ["tray", "network"] has become ["tray", "custom/wizado", "network"]
C6_Witness ==
    /\ TrayDrawerCase
    /\ ItemsOf(ModulesOf(Orig, group_key)) = <<TRAY, "network">>
    /\ ItemsOf(ModulesOf(cfg, group_key)) = <<TRAY, WIZADO, "network">>

-----------------------------------------------------------------------------
(* C7: when the located drawer's modules hold neither "tray" nor            *)
(* "custom/wizado", placement appends "custom/wizado"; the sentinel         *)
(* "custom/expand-icon" is put in front exactly when the list was empty.    *)
PlainDrawerCase ==
    /\ AfterPlacement
    /\ group_key # NoKey
    /\ Count(ItemsOf(ModulesOf(Orig, group_key)), TRAY) = 0
    /\ Count(ItemsOf(ModulesOf(Orig, group_key)), WIZADO) = 0

C7_AppendAndSentinel ==
    PlainDrawerCase =>
        LET old == ItemsOf(ModulesOf(Orig, group_key))
            new == ItemsOf(ModulesOf(cfg, group_key))
        IN  IF old = <<>>
            THEN new = <<EXPAND_ICON, WIZADO>>
            ELSE /\ InsertedAt(old, new, Len(old) + 1, WIZADO)
                 /\ Count(new, EXPAND_ICON) = 0

\* an empty drawer has become ["custom/expand-icon", "custom/wizado"]
C7_Witness ==
    /\ PlainDrawerCase
    /\ ItemsOf(ModulesOf(Orig, group_key)) = <<>>
    /\ ItemsOf(ModulesOf(cfg, group_key)) = <<EXPAND_ICON, WIZADO>>

\* a drawer that was not empty got the module at its end, and no sentinel
C7_WitnessNonEmpty ==
    /\ PlainDrawerCase
    /\ ItemsOf(ModulesOf(Orig, group_key)) = <<"network">>
    /\ ItemsOf(ModulesOf(cfg, group_key)) = <<"network", WIZADO>>

-----------------------------------------------------------------------------
(* C8: debug_waybar_patch.py, no drawer found, "custom/wizado" not in       *)
(* modules-right: it is put into modules-right right before the first       *)
(* occurrence of the first member of (bluetooth, network, pulseaudio, cpu,  *)
(* battery) that the list holds, at the end when it holds none of them; the *)
(* other elements keep their order.                                         *)
FlatCase ==
    /\ script = "debug_waybar_patch"
    /\ AfterPlacement
    /\ group_key = NoKey
    /\ Get(Orig, "modules-right", List(<<>>)).t = "list"
    /\ ~Contains(Get(Orig, "modules-right", List(<<>>)), WIZADO)

Anchors(items) == {t \in 1..Len(TARGETS) : Count(items, TARGETS[t]) > 0}
Least(S) == CHOOSE t \in S : \A u \in S : t <= u

C8_BeforeFirstAnchor ==
    FlatCase =>
        LET old == Get(Orig, "modules-right", List(<<>>)).items
            new == ItemsOf(Get(cfg, "modules-right", None))
        IN  IF Anchors(old) = {}
            THEN InsertedAt(old, new, Len(old) + 1, WIZADO)
            ELSE InsertedAt(old, new, FirstIndex(old, TARGETS[Least(Anchors(old))]), WIZADO)

\* ["network", "bluetooth"]: bluetooth comes first among the anchors
C8_Witness ==
    /\ FlatCase
    /\ Get(Orig, "modules-right", None) = List(<<"network", "bluetooth">>)
    /\ Get(cfg, "modules-right", None) = List(<<"network", WIZADO, "bluetooth">>)

-----------------------------------------------------------------------------
(* C9: find_drawer_group_key returns "group/tray-expander" whenever its     *)
(* value is a mapping with a list under "modules"; otherwise the first key  *)
(* in scan order that starts with "group/" and has such a value; nothing    *)
(* exactly when no key has. Other "group/" keys are skipped, and no other   *)
(* key is returned.                                                         *)
DrawerLike(doc, i) ==
    /\ doc.kv[i].k \in GroupKeys
    /\ doc.kv[i].v.t = "dict"
    /\ \E j \in 1..Len(doc.kv[i].v.kv) :
          doc.kv[i].v.kv[j].k = "modules" /\ doc.kv[i].v.kv[j].v.t = "list"

C9_LocateDrawer ==
    AfterPlacement =>
        LET drawers == {i \in 1..Len(Orig.kv) : DrawerLike(Orig, i)}
        IN  IF \E i \in drawers : Orig.kv[i].k = TRAY_EXPANDER
            THEN group_key = TRAY_EXPANDER
            ELSE IF drawers = {}
            THEN group_key = NoKey
            ELSE group_key = Orig.kv[Least(drawers)].k

\* the tray expander was preferred to a drawer that comes before it
C9_Witness ==
    /\ AfterPlacement
    /\ group_key = TRAY_EXPANDER
    /\ \E i \in 1..Len(Orig.kv) : DrawerLike(Orig, i) /\ Orig.kv[i].k # TRAY_EXPANDER

\* the first of two drawers in scan order was returned, a malformed group skipped
C9_WitnessScan ==
    /\ AfterPlacement
    /\ group_key = "group/a"
    /\ \E i \in 1..Len(Orig.kv) : Orig.kv[i].k = "group/b" /\ ~DrawerLike(Orig, i)

-----------------------------------------------------------------------------
(* C10, as stated: a run never gets as far as writing when modules-left,    *)
(* modules-right, modules-center, the "custom/wizado" definition or the     *)
(* document itself is not of the expected type.                             *)
UnexpectedShape(doc) ==
    \/ doc.t # "dict"
    \/ /\ doc.t = "dict"
       /\ \/ \E n \in 1..Len(FLAT_KEYS) :
                Has(doc, FLAT_KEYS[n]) /\ Get(doc, FLAT_KEYS[n], None).t # "list"
          \/ Has(doc, WIZADO) /\ Get(doc, WIZADO, None).t # "dict"

C10_AnyShapeAborts ==
    pc = "ready" => ~UnexpectedShape(Orig)

(* C10, amended: a run is aborted during traversal exactly when the         *)
(* document is not a mapping or, in fix_waybar.py, the existing             *)
(* "custom/wizado" definition is not a mapping; a modules-left,             *)
(* modules-right or modules-center that is not a list does not abort it.    *)
AbortingShape(doc, scr) ==
    \/ doc.t # "dict"
    \/ /\ scr = "fix_waybar"
       /\ doc.t = "dict"
       /\ Has(doc, WIZADO)
       /\ Get(doc, WIZADO, None).t # "dict"

C10_ShapesThatAbort ==
    /\ pc \in {"placed", "defined", "ready"} => ~AbortingShape(Orig, script)
    /\ (pc = "idle" /\ last.outcome = "aborted" /\ file.exists /\ Parses(Strip(file.text)))
           => AbortingShape(Orig, last.script)

\* fix_waybar.py has been aborted by a definition that is no mapping
C10_Witness ==
    /\ pc = "idle"
    /\ last = [script |-> "fix_waybar", outcome |-> "aborted"]
    /\ file.exists /\ Parses(Strip(file.text))
    /\ Orig.t = "dict"
    /\ Get(Orig, WIZADO, None).t = "str"

====
